---- MODULE Spec2Model ----
(***************************************************************************)
(* State-machine model of src/app.js: an interactive wrapper that          *)
(* provisions yt-dlp.exe and an FFmpeg bundle, keeps a history of download *)
(* folders and drives one download job per loop iteration.                 *)
(*                                                                         *)
(* The program is a single flow of control (async/await): pc is the        *)
(* position of that flow.  Everything the environment decides (network     *)
(* outcome, archive content, file-system errors, user answers) is an input *)
(* drawn with \E from a small set.  The one thing that runs beside the     *)
(* flow is a response stream that safeDownload left open: its 'error'      *)
(* event, which has no listener, can end the process at any await.         *)
(***************************************************************************)
EXTENDS Integers, Sequences, FiniteSets, TLC

VARIABLES
  pc,              \* position of the single flow of control
  ytdlpFile,       \* file at ytdlpPath:  "none" | "partial" | "full"
  zipFile,         \* file at <scriptDirectory>/ffmpeg.zip, same values
  tempDir,         \* TRUE iff <scriptDirectory>/ffmpeg_temp exists
  binDir,          \* TRUE iff ffmpegBinDir exists
  binFiles,        \* the required files present in ffmpegBinDir
  history,         \* content of download_history.json (a sequence of paths)
  folders,         \* the download folders that exist on disk
  plainFiles,      \* the paths that exist on disk as regular files
  ffmpegAvailable, \* the global flag of line 24
  dl,              \* frame of the running / last safeDownload call
  inst,            \* frame of the running / last installFFmpeg call
  prov,            \* what startDownloader observed and asked while provisioning
  job,             \* locals of the current iteration of the download loop
  exitCode,        \* "running" | 0 | 1
  live             \* TRUE iff a response stream of an earlier attempt is still open

vars == << pc, ytdlpFile, zipFile, tempDir, binDir, binFiles, history, folders, plainFiles,
           ffmpegAvailable, dl, inst, prov, job, exitCode, live >>

(***************************************************************************)
(* Bounds of the model.                                                    *)
(***************************************************************************)
\* largest `retries` argument tried for safeDownload
MaxRetries == 4

\* default value of safeDownload's `retries` parameter
DefaultRetries == 3

(***************************************************************************)
(* Files on disk.  fs.existsSync is true for a partial file as well.       *)
(***************************************************************************)
FileStates == {"none", "partial", "full"}

existsSync(f) == f # "none"

(***************************************************************************)
(* safeDownload (lines 169-193).  One loop iteration has one of these      *)
(* outcomes:                                                               *)
(*   requestError   axios rejects: there is no response, nothing is        *)
(*                  written, control goes to the catch block               *)
(*   openError      the response arrived but the write stream cannot be    *)
(*                  opened: the file stays as it was, the writer emits     *)
(*                  'error', control goes to the catch block               *)
(*   writeError     the write stream was opened (file created/truncated)   *)
(*                  and then emitted 'error': a partial file stays on      *)
(*                  disk, control goes to the catch block                  *)
(*   finishPresent  the stream finished and the file exists: return true   *)
(*   finishAbsent   the stream finished but existsSync is false: falls out *)
(*                  of the try without return, the loop goes on            *)
(*   sourceError    the response stream fails after part of the body was   *)
(*                  written.  pipe() (line 180) does not pass the error on *)
(*                  to the writer, so neither 'finish' nor 'error' (lines  *)
(*                  182-183) fires and the await of line 181 never         *)
(*                  settles; the 'error' event of the response has no      *)
(*                  listener and ends the process with code 1              *)
(*   sourceErrorNoOpen  the response stream fails at once, while the write *)
(*                  stream could not be opened: the process ends with code *)
(*                  1 and the file is as it was                            *)
(*   sourceErrorHandled  the body stops without an 'error' event of the    *)
(*                  response: the await never settles, the event loop      *)
(*                  runs empty and the process ends with code 0            *)
(* After openError and writeError the response is neither consumed nor     *)
(* destroyed (lines 179-184 put no listener on it): it stays open while    *)
(* the program goes on, and an error on it later ends the process with     *)
(* code 1 (ResponseError below).                                           *)
(***************************************************************************)
Outcomes == {"requestError", "openError", "writeError", "finishPresent",
             "finishAbsent", "sourceError", "sourceErrorNoOpen",
             "sourceErrorHandled"}

\* the outcomes after which the promise of lines 181-184 stays pending
Stalls == {"sourceError", "sourceErrorNoOpen", "sourceErrorHandled"}

\* the outcomes that leave the response open behind the attempt
Abandons == {"openError", "writeError"}

\* the file at outputPath after one attempt with outcome o
fileAfterAttempt(o, f) ==
  CASE o = "finishPresent"                       -> "full"
    [] o = "finishAbsent"                        -> "none"
    [] o = "writeError"                          -> "partial"
    [] o \in {"sourceError", "sourceErrorHandled"} -> "partial"
    [] OTHER                                     -> f

\* whether a response is left open after one attempt with outcome o
liveAfterAttempt(o, open) == open \/ o \in Abandons

\* mutant: the catch block gives up at the first error
safeDownloadIter_NoRetry(i, retries, o) ==
  CASE o = "finishPresent" -> "true"
    [] o = "finishAbsent"  -> IF i + 1 <= retries THEN "none" ELSE "false"
    [] o \in Stalls        -> "never"
    [] OTHER               -> "false"

\* what iteration i of the loop returns: "true", "false", "none" when the
\* loop goes on to iteration i + 1, or "never" when the iteration stays at
\* the await of line 181 for good
safeDownloadIter(i, retries, o) ==
  CASE o = "finishPresent" -> "true"                        \* line 185
    [] o = "finishAbsent"  -> IF i + 1 <= retries THEN "none" ELSE "false"  \* 170, 192
    [] o \in Stalls        -> "never"                                       \* 181
    [] OTHER               -> IF i = retries THEN "false" ELSE "none"       \* 188

\* the exit code of a process whose only pending work is a promise that
\* never settles
exitAfterStall(o) == IF o = "sourceErrorHandled" THEN 0 ELSE 1

NoCall == [target |-> "none", caller |-> "none", retries |-> 0, i |-> 0,
           ret |-> "none", log |-> << >>]

\* the frame at entry of safeDownload(url, outputPath, retries)
safeDownloadCall(target, caller, retries) ==
  [target |-> target, caller |-> caller, retries |-> retries, i |-> 1,
   ret |-> IF 1 <= retries THEN "none" ELSE "false", log |-> << >>]

\* where control continues when safeDownload returns
AfterDownload(caller) ==
  CASE caller = "startDownloader" -> "ytdlpFetched"
    [] caller = "installFFmpeg"   -> "zipFetched"
    [] OTHER                      -> "returned"

\* one iteration of the for loop of safeDownload
DownloadAttempt ==
  /\ pc = "safeDownload"
  /\ dl.ret = "none"
  /\ dl.i <= dl.retries
  /\ \E o \in Outcomes :
       LET r == safeDownloadIter(dl.i, dl.retries, o) IN
       /\ dl' = [dl EXCEPT !.i = IF r \in {"true", "never"} THEN dl.i ELSE dl.i + 1,
                           !.ret = r,
                           !.log = Append(dl.log, o)]
       /\ IF dl.target = "ytdlp"
            THEN /\ ytdlpFile' = fileAfterAttempt(o, ytdlpFile)
                 /\ UNCHANGED zipFile
            ELSE /\ zipFile' = fileAfterAttempt(o, zipFile)
                 /\ UNCHANGED ytdlpFile
       /\ IF r = "never"
            THEN /\ pc' = "exit" /\ exitCode' = exitAfterStall(o)
                 /\ live' = FALSE
            ELSE /\ pc' = IF r = "none" THEN "safeDownload" ELSE AfterDownload(dl.caller)
                 /\ live' = liveAfterAttempt(o, live)
                 /\ UNCHANGED exitCode
  /\ UNCHANGED << tempDir, binDir, binFiles, history, folders, plainFiles,
                  ffmpegAvailable, inst, prov, job >>

\* whether the flow of control waits at an await in position p, so that
\* events are delivered: the back-off and the request of safeDownload, the
\* extraction (line 232), the prompts (lines 416-424, 448-510, 557), the
\* probe when it runs ffmpeg (line 295) and the wait for the downloader
\* (line 530).  The other positions continue without yielding.
atAwait(p, toolState, available) ==
  \/ p \in {"safeDownload", "installTry", "promptUrl", "showOptions",
            "selectFolder", "confirm", "awaitClose", "askRepeat"}
  \/ p = "checkFFmpeg" /\ toolState # "Complete"
  \/ p = "probe" /\ available



(***************************************************************************)
(* The FFmpeg bundle.                                                      *)
(***************************************************************************)
\* the list of lines 210 and 243
requiredFiles == << "ffmpeg.exe", "ffprobe.exe", "ffplay.exe" >>

Required == { requiredFiles[k] : k \in 1..Len(requiredFiles) }

\* testFFmpegComplete (lines 209-214): the required files missing from
\* ffmpegBinDir, in the order of the list
testFFmpegComplete(bin) ==
  SelectSeq(requiredFiles, LAMBDA file : file \notin bin)

(***************************************************************************)
(* An extracted archive is a directory tree: a directory is a record       *)
(* [name, files, dirs] with dirs the sub-directories in readdir order.     *)
(***************************************************************************)
Leaf(name, files) == [name |-> name, files |-> files, dirs |-> << >>]

Pkg(subdirs) == [name |-> "ffmpeg-master-latest-win64-gpl",
                 files |-> {"LICENSE.txt"}, dirs |-> subdirs]

Root(subdirs) == [name |-> "ffmpeg_temp", files |-> {}, dirs |-> subdirs]

\* number of directories nested around the marker directory in the deep
\* archives
MaxTreeDepth == 4

\* d wrapped in n directories, each the only entry of the one around it
RECURSIVE Nest(_, _)
Nest(n, d) ==
  IF n = 0 THEN d
  ELSE [name |-> "sub", files |-> {}, dirs |-> << Nest(n - 1, d) >>]

\* the archives tried: the usual layout <pkg>/bin with every subset of the
\* required files, bin at top level, no bin at all, an empty archive, a
\* layout where an empty doc/bin comes first in readdir order, a bin nested
\* MaxTreeDepth directories deep, and such a deep bin (one file) that comes
\* before a complete bin at top level
Bundles ==
  { Root(<< Pkg(<< Leaf("bin", S \cup {"ffmpeg.dll"}), Leaf("doc", {"ffmpeg.html"}) >>) >>)
      : S \in SUBSET Required }
  \cup { Root(<< Leaf("bin", Required) >>),
         Root(<< Pkg(<< Leaf("doc", {"ffmpeg.html"}) >>) >>),
         Root(<< >>),
         Root(<< Pkg(<< [name |-> "adoc", files |-> {},
                         dirs |-> << Leaf("bin", {}) >>],
                        Leaf("bin", Required) >>) >>),
         Root(<< Nest(MaxTreeDepth, Leaf("bin", Required)) >>),
         Root(<< Nest(MaxTreeDepth, Leaf("bin", {"ffmpeg.exe"})),
                 Leaf("bin", Required) >>) }

NotFound == [name |-> "undefined", files |-> {}, dirs |-> << >>]

\* findDir (lines 277-290): depth-first, in readdir order, the first
\* directory whose basename is `filter`; NotFound for the undefined result.
\* k is the loop index i (1-based); the recursion goes as deep as the tree
RECURSIVE findDirFrom(_, _, _)
findDirFrom(d, filter, k) ==
  IF k > Len(d.dirs) THEN NotFound
  ELSE LET e == d.dirs[k]
           found == IF e.name = filter THEN e
                    ELSE findDirFrom(e, filter, 1)
       IN  IF found # NotFound THEN found
           ELSE findDirFrom(d, filter, k + 1)

findDir(startPath, filter) == findDirFrom(startPath, filter, 1)

\* the forEach of lines 245-254: copy each required file that the marker
\* directory holds; failAt is the position in the list of the file whose
\* copyFileSync throws (0: none throws).  A copy that fails before the
\* destination is opened (unreadable source, read-only destination) leaves
\* an older destination file in place; one that fails after it was opened
\* (disk full) removes the destination file: `unlinked` tells the two apart
RECURSIVE copyLoop(_, _, _, _, _, _)
copyLoop(k, present, failAt, unlinked, bin, copied) ==
  IF k > Len(requiredFiles)
    THEN [threw |-> FALSE, bin |-> bin, copied |-> copied]
    ELSE LET file == requiredFiles[k] IN
         IF file \in present
           THEN IF failAt = k
                  THEN [threw |-> TRUE,
                        bin |-> IF unlinked THEN bin \ {file} ELSE bin,
                        copied |-> copied]
                  ELSE copyLoop(k + 1, present, failAt, unlinked,
                                bin \cup {file}, copied + 1)
           ELSE copyLoop(k + 1, present, failAt, unlinked, bin, copied)

\* mutant: success only when every file of the list was copied
installSucceeded_All(copiedFiles) == copiedFiles = Len(requiredFiles)

\* the test of line 256
installSucceeded(copiedFiles) == copiedFiles > 0

\* the try block of installFFmpeg (lines 232-265) with its catch (266-268):
\* ret is the value the block returns
installTry(extractOk, tree, mkdirOk, failAt, unlinked, hasBinDir, bin) ==
  LET binSourceDir == findDir(tree, "bin")
      none == [ret |-> "false", threw |-> FALSE, found |-> FALSE, present |-> {},
               copied |-> 0, binDir |-> hasBinDir, bin |-> bin]
  IN
  IF ~extractOk THEN [none EXCEPT !.threw = TRUE]                        \* 232, 266
  ELSE IF binSourceDir = NotFound THEN none                            \* 235-238
  ELSE LET present == binSourceDir.files \cap Required
           found == [none EXCEPT !.found = TRUE, !.present = present]
       IN
       IF ~hasBinDir /\ ~mkdirOk THEN [found EXCEPT !.threw = TRUE]      \* 241, 266
       ELSE LET c == copyLoop(1, present, failAt, unlinked, bin, 0) IN
            [found EXCEPT !.binDir = TRUE, !.bin = c.bin, !.copied = c.copied,
                          !.threw = c.threw,
                          !.ret = IF ~c.threw /\ installSucceeded(c.copied)
                                    THEN "true" ELSE "false"]

\* mutant: the archive file is not removed
cleanup_NoUnlink(temp, zip, rmOk, unlinkOk) ==
  IF temp /\ ~rmOk THEN [threw |-> TRUE, temp |-> temp, zip |-> zip]
  ELSE [threw |-> FALSE, temp |-> FALSE, zip |-> zip]

\* the finally block (lines 269-273): rmSync of the scratch directory, then
\* unlinkSync of the archive; either may throw, and a throw leaves what it
\* had not yet removed
cleanup(temp, zip, rmOk, unlinkOk) ==
  IF temp /\ ~rmOk THEN [threw |-> TRUE, temp |-> temp, zip |-> zip]
  ELSE IF existsSync(zip) /\ ~unlinkOk
         THEN [threw |-> TRUE, temp |-> FALSE, zip |-> zip]
  ELSE [threw |-> FALSE, temp |-> FALSE, zip |-> "none"]

NoInstall == [phase |-> "none", downloaded |-> FALSE, ret |-> "none",
              found |-> FALSE, present |-> {}, copied |-> 0, tryThrew |-> FALSE]

\* installFFmpeg, lines 216-220: start the download of the archive
InstallStart ==
  /\ pc = "installFFmpeg"
  /\ inst' = [NoInstall EXCEPT !.phase = "download"]
  /\ dl' = safeDownloadCall("zip", "installFFmpeg", DefaultRetries)
  /\ pc' = "safeDownload"
  /\ UNCHANGED << ytdlpFile, zipFile, tempDir, binDir, binFiles, history, folders, plainFiles,
                  ffmpegAvailable, prov, job, exitCode, live >>

\* lines 220-229: a failed download returns false at once; otherwise the
\* scratch directory is wiped and recreated, outside any try block
InstallPrepare ==
  /\ pc = "zipFetched"
  /\ \/ /\ dl.ret = "false"
        /\ inst' = [inst EXCEPT !.phase = "returned", !.ret = "false"]
        /\ pc' = "installed"
        /\ UNCHANGED tempDir
     \/ /\ dl.ret # "false"
        /\ \E rmOk \in BOOLEAN, mkdirOk \in BOOLEAN :
             IF tempDir /\ ~rmOk
               THEN /\ inst' = [inst EXCEPT !.phase = "threw", !.ret = "throw",
                                            !.downloaded = TRUE]
                    /\ pc' = "installed"
                    /\ UNCHANGED tempDir
             ELSE IF ~mkdirOk
               THEN /\ inst' = [inst EXCEPT !.phase = "threw", !.ret = "throw",
                                            !.downloaded = TRUE]
                    /\ pc' = "installed"
                    /\ tempDir' = FALSE
             ELSE /\ inst' = [inst EXCEPT !.phase = "try", !.downloaded = TRUE]
                  /\ pc' = "installTry"
                  /\ tempDir' = TRUE
  /\ dl' = NoCall
  /\ UNCHANGED << ytdlpFile, zipFile, binDir, binFiles, history, folders, plainFiles,
                  ffmpegAvailable, prov, job, exitCode, live >>

\* lines 231-268: extract, find the marker directory, copy
InstallTry ==
  /\ pc = "installTry"
  /\ \E extractOk \in BOOLEAN, tree \in Bundles, mkdirOk \in BOOLEAN,
        failAt \in 0..Len(requiredFiles), unlinked \in BOOLEAN :
       LET t == installTry(extractOk, tree, mkdirOk, failAt, unlinked,
                           binDir, binFiles) IN
       /\ inst' = [inst EXCEPT !.phase = "finally", !.ret = t.ret,
                               !.found = t.found, !.present = t.present,
                               !.copied = t.copied, !.tryThrew = t.threw]
       /\ binDir' = t.binDir
       /\ binFiles' = t.bin
  /\ pc' = "installFinally"
  /\ UNCHANGED << ytdlpFile, zipFile, tempDir, history, folders, plainFiles, ffmpegAvailable,
                  dl, prov, job, exitCode, live >>

\* lines 269-273: the finally block; an error thrown here replaces the
\* pending return value
InstallFinally ==
  /\ pc = "installFinally"
  /\ \E rmOk \in BOOLEAN, unlinkOk \in BOOLEAN :
       LET c == cleanup(tempDir, zipFile, rmOk, unlinkOk) IN
       /\ tempDir' = c.temp
       /\ zipFile' = c.zip
       /\ inst' = IF c.threw
                    THEN [inst EXCEPT !.phase = "threw", !.ret = "throw"]
                    ELSE [inst EXCEPT !.phase = "returned"]
  /\ pc' = "installed"
  /\ UNCHANGED << ytdlpFile, binDir, binFiles, history, folders, plainFiles, ffmpegAvailable,
                  dl, prov, job, exitCode, live >>

(***************************************************************************)
(* Paths.  A path string is modelled by its structure: abs says whether it *)
(* starts with the separator, segs are its segments.  ""  is the relative  *)
(* path without segments.  Two segments stand for strings that trim()      *)
(* changes: " . " (a padded dot) and "  " (whitespace only).               *)
(***************************************************************************)
Rel(segs) == [abs |-> FALSE, segs |-> segs]

Abs(segs) == [abs |-> TRUE, segs |-> segs]

EmptyPath == Rel(<< >>)
Dot == Rel(<< "." >>)
PaddedDot == Rel(<< " . " >>)
Blank == Rel(<< "  " >>)

\* process.cwd()
cwd == Abs(<< "w" >>)

\* String.prototype.trim on a path string of the model
trim(p) ==
  CASE p = PaddedDot -> Dot
    [] p = Blank     -> EmptyPath
    [] OTHER         -> p

\* normalisation done by path.resolve: "." is dropped, ".." removes the
\* segment before it (and is dropped at the root)
RECURSIVE normalize(_, _)
normalize(stack, segs) ==
  IF segs = << >> THEN stack
  ELSE LET s == Head(segs) IN
       normalize(CASE s = "."  -> stack
                   [] s = ".." -> IF stack = << >> THEN stack
                                  ELSE SubSeq(stack, 1, Len(stack) - 1)
                   [] OTHER    -> Append(stack, s),
                 Tail(segs))

\* path.resolve(p): absolute and normalised; a relative path is taken from
\* the current directory, and resolve("") is the current directory
resolve(p) == Abs(normalize(IF p.abs THEN << >> ELSE cwd.segs, p.segs))

\* the path strings given to addToHistory and to the "new path" prompt:
\* "", ".", " . ", "  ", "..", "a", "./a", "a/..", "a/b", "../b", "/", "/a",
\* "/w/a", "/b/.", "/a/../b", "/..", "/d1"
RawPaths ==
  { EmptyPath, Dot, PaddedDot, Blank, Rel(<< ".." >>), Rel(<< "a" >>),
    Rel(<< ".", "a" >>), Rel(<< "a", ".." >>), Rel(<< "a", "b" >>),
    Rel(<< "..", "b" >>), Abs(<< >>), Abs(<< "a" >>), Abs(<< "w", "a" >>),
    Abs(<< "b", "." >>), Abs(<< "a", "..", "b" >>), Abs(<< ".." >>),
    Abs(<< "d1" >>) }

(***************************************************************************)
(* Folder history (lines 37-72).  history is the array stored in           *)
(* download_history.json; the program is its only writer.  Reading and     *)
(* writing the file can fail: both failures are caught and logged.         *)
(***************************************************************************)
\* the `slice(0, 10)` of line 70
HistoryLimit == 10

\* Array.prototype.indexOf, 1-based; 0 when absent (the -1 of JavaScript)
indexOf(seq, x) ==
  IF \E k \in 1..Len(seq) : seq[k] = x
    THEN CHOOSE k \in 1..Len(seq) : seq[k] = x /\ \A j \in 1..(k - 1) : seq[j] # x
    ELSE 0

\* history.splice(index, 1), 1-based
splice1(seq, index) == SubSeq(seq, 1, index - 1) \o SubSeq(seq, index + 1, Len(seq))

\* history.slice(0, n)
slice0(seq, n) == SubSeq(seq, 1, IF Len(seq) < n THEN Len(seq) ELSE n)

\* a history file whose content is not valid JSON (a cut-off array); no
\* list of folders equals it, since every stored folder is absolute
Corrupt == << Rel(<< "cut-off JSON" >>) >>

\* readHistory (lines 37-47): the array in the file; the empty array when
\* the file is missing (file = << >>), when reading it throws, or when its
\* content does not parse
readHistory(file, readOk) == IF readOk /\ file # Corrupt THEN file ELSE << >>

\* how writeFileSync (line 51) can end: the file is written; the write is
\* refused before the file is touched (no permission); or the write fails
\* after the file was truncated (disk full, size limit), which leaves a
\* cut-off text
WriteOutcomes == {"written", "refused", "cutOff"}

\* writeHistory (lines 49-55): the file after the call; the error of a
\* failed write is caught and logged
writeHistory(file, paths, write) ==
  CASE write = "written" -> paths
    [] write = "refused" -> file
    [] OTHER             -> Corrupt

\* mutant: the entry found is not removed before the unshift
addToHistory_NoSplice(file, newPath, readOk, write) ==
  IF newPath = EmptyPath \/ trim(newPath) = Dot THEN file
  ELSE writeHistory(file,
                    slice0(<< resolve(newPath) >> \o readHistory(file, readOk),
                           HistoryLimit),
                    write)

\* addToHistory (lines 57-72): the content of the history file after the
\* call; readOk says whether the read of line 62 succeeds, write how the
\* write of line 71 ends
addToHistory(file, newPath, readOk, write) ==
  IF newPath = EmptyPath \/ trim(newPath) = Dot THEN file              \* 58
  ELSE LET resolvedPath == resolve(newPath)                            \* 60
           hist == readHistory(file, readOk)                           \* 62
           index == indexOf(hist, resolvedPath)                        \* 64
           removed == IF index > 0 THEN splice1(hist, index) ELSE hist \* 65-67
       IN  writeHistory(file, slice0(<< resolvedPath >> \o removed, HistoryLimit),
                        write)                                         \* 69-71

\* the folder step of the loop (lines 475-491) for the three kinds of choice
\* of the list prompt: [folder, history] after the step; `choices` is the
\* history read at line 459 for the list
chooseNew(file, newFolder, readOk, write) ==
  LET trimmedPath == trim(newFolder)
      downloadFolder == resolve(trimmedPath)
  IN  [folder |-> downloadFolder,
       history |-> addToHistory(file, downloadFolder, readOk, write)]

chooseCurrent(file) == [folder |-> cwd, history |-> file]

chooseEntry(choices, file, k, readOk, write) ==
  [folder |-> choices[k],
   history |-> addToHistory(file, choices[k], readOk, write)]

\* the validate function of the "new path" prompt (line 481)
validNewFolder(input) == trim(input) # EmptyPath

(***************************************************************************)
(* Locals of one iteration of the download loop.  SpecHist also records    *)
(* the history read at line 459 (before), the answer to the "new path"     *)
(* prompt (typed), the number of folder choices made (n) and whether the   *)
(* read of addToHistory succeeded and how its write ended (readOk, write). *)
(* format                                                                  *)
(* and meta are the answers to the two prompts of the custom mode.         *)
(***************************************************************************)
NoJob == [phase |-> "none", input |-> << >>, asked |-> FALSE, confirmed |-> FALSE,
          url |-> << >>, option |-> "0", choice |-> "none", typed |-> EmptyPath,
          folder |-> EmptyPath, before |-> << >>, args |-> << >>, n |-> 0,
          format |-> "", meta |-> FALSE, readOk |-> TRUE, write |-> "written"]

(***************************************************************************)
(* URLs.  A URL string is modelled as the sequence of its pieces; the      *)
(* regular expressions of testValidUrl are evaluated on the pieces: the    *)
(* anchored one looks at the first piece, the others at every piece.       *)
(***************************************************************************)
\* the answers given to the URL prompt: "", " ", "example.org",
\* "https://example.org", " https://example.org", "https://youtu.be"
Urls ==
  { << >>, << " " >>, << "example.org" >>, << "https://", "example.org" >>,
    << " ", "https://", "example.org" >>, << "https://", "youtu.be" >> }

\* String.prototype.trim on a URL
RECURSIVE trimLeft(_)
trimLeft(u) == IF u # << >> /\ Head(u) = " " THEN trimLeft(Tail(u)) ELSE u

RECURSIVE trimRight(_)
trimRight(u) ==
  IF u # << >> /\ u[Len(u)] = " " THEN trimRight(SubSeq(u, 1, Len(u) - 1)) ELSE u

trimUrl(u) == trimRight(trimLeft(u))

\* the array `patterns` of lines 371-380
patterns ==
  << [anchored |-> TRUE,  alts |-> {"http://", "https://"}],
     [anchored |-> FALSE, alts |-> {"youtube.com", "youtu.be"}],
     [anchored |-> FALSE, alts |-> {"vimeo.com"}],
     [anchored |-> FALSE, alts |-> {"twitter.com"}],
     [anchored |-> FALSE, alts |-> {"tiktok.com"}],
     [anchored |-> FALSE, alts |-> {"instagram.com"}],
     [anchored |-> FALSE, alts |-> {"facebook.com"}],
     [anchored |-> FALSE, alts |-> {"twitch.tv"}] >>

\* RegExp.prototype.test
test(p, url) ==
  IF p.anchored THEN url # << >> /\ url[1] \in p.alts
  ELSE \E j \in 1..Len(url) : url[j] \in p.alts

\* mutant: a URL that matches no pattern is accepted whatever the answer
testValidUrl_AcceptDeclined(url, confirmation) ==
  IF url = << >> \/ trimUrl(url) = << >>
    THEN [asked |-> FALSE, valid |-> FALSE]
  ELSE IF \E k \in 1..Len(patterns) : test(patterns[k], url)
    THEN [asked |-> FALSE, valid |-> TRUE]
  ELSE [asked |-> TRUE, valid |-> TRUE]

\* testValidUrl (lines 369-388): asked says whether the confirmation prompt
\* is shown, valid is the result when the prompt is answered `confirmation`
testValidUrl(url, confirmation) ==
  IF url = << >> \/ trimUrl(url) = << >>
    THEN [asked |-> FALSE, valid |-> FALSE]                       \* 370
  ELSE IF \E k \in 1..Len(patterns) : test(patterns[k], url)
    THEN [asked |-> FALSE, valid |-> TRUE]                        \* 381
  ELSE [asked |-> TRUE, valid |-> confirmation]                   \* 387

(***************************************************************************)
(* getDownloadArguments (lines 320-367).                                   *)
(***************************************************************************)
ffmpegBinDir == "ffmpeg/bin"

Options == {"1", "2", "3", "4", "5"}

CustomFormats == {"", "bestvideo+bestaudio"}

\* mutant: the location of the FFmpeg bundle is always passed
locationArgs_Always(available) == << "--ffmpeg-location", ffmpegBinDir >>

\* lines 322-324
locationArgs(available) ==
  IF available THEN << "--ffmpeg-location", ffmpegBinDir >> ELSE << >>

\* mutant: the audio mode embeds what the video modes embed
audioArgs_Thumbnail(available) ==
  << "-x", "--audio-format", "mp3", "--audio-quality", "0" >>
    \o (IF available THEN << "--embed-metadata", "--embed-thumbnail" >> ELSE << >>)

\* case '2', lines 333-334
audioArgs(available) ==
  << "-x", "--audio-format", "mp3", "--audio-quality", "0" >>
    \o (IF available THEN << "--embed-metadata" >> ELSE << >>)

\* mutant: the format selector is appended whatever was typed
customArgs_AlwaysFormat(available, customFormat, includeMeta) ==
  << "-f", customFormat >>
    \o (IF available /\ includeMeta
          THEN << "--embed-metadata", "--embed-thumbnail" >> ELSE << >>)

\* case '5', lines 350-363: the empty string is falsy, so no selector then
customArgs(available, customFormat, includeMeta) ==
  (IF customFormat # "" THEN << "-f", customFormat >> ELSE << >>)
    \o (IF available /\ includeMeta
          THEN << "--embed-metadata", "--embed-thumbnail" >> ELSE << >>)

getDownloadArguments(option, available, customFormat, includeMeta) ==
  LET baseArgs == << "--console-title", "--no-part" >> \o locationArgs(available)
      embed == IF available THEN << "--embed-metadata", "--embed-thumbnail" >> ELSE << >>
  IN
  CASE option = "1" -> baseArgs \o << "-f", "best[height<=720]/best" >> \o embed
    [] option = "2" -> baseArgs \o audioArgs(available)
    [] option = "3" -> baseArgs
                         \o << "-f", "bestvideo[height<=1080]+bestaudio/best[height<=1080]" >>
                         \o embed
    [] option = "4" -> baseArgs
                         \o << "-f", "bestvideo[height<=720]+bestaudio/best[height<=720]" >>
                         \o embed
    [] option = "5" -> baseArgs \o customArgs(available, customFormat, includeMeta)
    [] OTHER -> baseArgs

(***************************************************************************)
(* startDownloader, provisioning part (lines 392-437).                     *)
(***************************************************************************)
NoProv == [phase |-> "none", online |-> FALSE, continued |-> FALSE,
           ytdlp |-> "none", fetch |-> "none", update |-> "none",
           binSeen |-> {}, toolState |-> "none", missing |-> << >>,
           asked |-> "none", answer |-> FALSE, installed |-> "none",
           copied |-> 0, functional |-> FALSE]

\* a process that ends closes the responses it left open
Closed == live' = (live /\ pc' # "exit")

RunFrame == UNCHANGED << ytdlpFile, zipFile, tempDir, binDir, binFiles, history,
                         folders, plainFiles >> /\ Closed

\* the process ends: process.exit(code), or startDownloader returns (code 0)
Exit(code) == pc' = "exit" /\ exitCode' = code

\* mutant: no connection ends the run without asking
connectivityFatal_Offline(online, goOn) == ~online

\* lines 396-398: the run ends only when testInternetConnection (lines
\* 161-167) resolved false and the confirmation was declined
connectivityFatal(online, goOn) == ~online /\ ~goOn

\* lines 396-399: connectivity check; declining to go on exits with 1
Start ==
  /\ pc = "start"
  /\ \E online \in BOOLEAN, goOn \in BOOLEAN :
       /\ prov' = [prov EXCEPT !.phase = "connectivity", !.online = online,
                               !.continued = online \/ goOn]
       /\ IF connectivityFatal(online, goOn) THEN Exit(1)
          ELSE pc' = "checkYtdlp" /\ UNCHANGED exitCode
  /\ RunFrame
  /\ UNCHANGED << ffmpegAvailable, dl, inst, job >>

\* mutant: a failed fetch of yt-dlp is not fatal
fetchIsFatal_Never(ret) == FALSE

\* line 403
fetchIsFatal(ret) == ret # "true"

\* lines 401-410: fetch yt-dlp when it is missing, else updateYtdlp
\* (lines 195-207), whose failure is only logged
CheckYtdlp ==
  /\ pc = "checkYtdlp"
  /\ \/ /\ ~existsSync(ytdlpFile)
        /\ dl' = safeDownloadCall("ytdlp", "startDownloader", DefaultRetries)
        /\ prov' = [prov EXCEPT !.phase = "ytdlp", !.ytdlp = "Missing"]
        /\ pc' = "safeDownload"
     \/ /\ existsSync(ytdlpFile)
        /\ \E ok \in BOOLEAN :
             /\ ok => ytdlpFile = "full"
             /\ prov' = [prov EXCEPT !.phase = "ytdlp", !.ytdlp = "Ready",
                                     !.update = IF ok THEN "ok" ELSE "failed"]
        /\ pc' = "checkFFmpeg"
        /\ UNCHANGED dl
  /\ RunFrame
  /\ UNCHANGED << ffmpegAvailable, inst, job, exitCode >>

\* lines 403-407: the result of the fetch
YtdlpFetched ==
  /\ pc = "ytdlpFetched"
  /\ prov' = [prov EXCEPT !.fetch = IF dl.ret = "true" THEN "ok" ELSE "failed"]
  /\ IF fetchIsFatal(dl.ret)
       THEN Exit(1)
       ELSE pc' = "checkFFmpeg" /\ UNCHANGED exitCode
  /\ dl' = NoCall
  /\ RunFrame
  /\ UNCHANGED << ffmpegAvailable, inst, job >>

\* the three states of the media tool as lines 412-414 tell them apart
toolStateOf(bin) ==
  IF "ffmpeg.exe" \in bin                                   \* existsSync(ffmpegExePath)
    THEN IF Len(testFFmpegComplete(bin)) = 0 THEN "Complete" ELSE "Incomplete"
    ELSE "Missing"

\* lines 412-430: what is found, what is asked
CheckFFmpeg ==
  /\ pc = "checkFFmpeg"
  /\ LET state == toolStateOf(binFiles)
         seen == [prov EXCEPT !.phase = "ffmpeg", !.binSeen = binFiles,
                              !.toolState = state]
     IN
     \/ /\ state = "Complete"
        /\ ffmpegAvailable' = TRUE
        /\ prov' = [seen EXCEPT !.phase = "provisioned"]
        /\ pc' = "probe"
     \/ /\ state = "Incomplete"
        /\ \E yes \in BOOLEAN :
             /\ prov' = [seen EXCEPT !.missing = testFFmpegComplete(binFiles),
                                     !.asked = "repair", !.answer = yes,
                                     !.phase = IF yes THEN "ffmpeg" ELSE "provisioned"]
             /\ pc' = IF yes THEN "installFFmpeg" ELSE "probe"
        /\ UNCHANGED ffmpegAvailable
     \/ /\ state = "Missing"
        /\ \E yes \in BOOLEAN :
             /\ prov' = [seen EXCEPT !.asked = "install", !.answer = yes,
                                     !.phase = IF yes THEN "ffmpeg" ELSE "provisioned"]
             /\ pc' = IF yes THEN "installFFmpeg" ELSE "probe"
        /\ UNCHANGED ffmpegAvailable
  /\ RunFrame
  /\ UNCHANGED << dl, inst, job, exitCode >>

\* lines 420 and 425: ffmpegAvailable = await installFFmpeg()
flagAfterInstall(ret) == ret = "true"

\* installFFmpeg has ended: its value is assigned, or its error rejects
\* startDownloader and the handler of lines 566-574 exits with 1
InstallReturn ==
  /\ pc = "installed"
  /\ IF inst.ret = "throw"
       THEN /\ Exit(1)
            /\ prov' = [prov EXCEPT !.installed = inst.ret, !.copied = inst.copied]
            /\ UNCHANGED ffmpegAvailable
       ELSE /\ ffmpegAvailable' = flagAfterInstall(inst.ret)
            /\ prov' = [prov EXCEPT !.phase = "provisioned", !.installed = inst.ret,
                                    !.copied = inst.copied]
            /\ pc' = "probe"
            /\ UNCHANGED exitCode
  /\ inst' = NoInstall
  /\ RunFrame
  /\ UNCHANGED << dl, job >>

\* lines 432-437: PATH is extended, then testFFmpegFunctional (lines 292-300)
Probe ==
  /\ pc = "probe"
  /\ \E ok \in BOOLEAN :
       /\ ok => ffmpegAvailable /\ "ffmpeg.exe" \in binFiles
       /\ prov' = [NoProv EXCEPT !.phase = "loop", !.functional = ok]
  /\ job' = [NoJob EXCEPT !.phase = "url"]
  /\ pc' = "promptUrl"
  /\ RunFrame
  /\ UNCHANGED << ffmpegAvailable, dl, inst, exitCode >>

(***************************************************************************)
(* startDownloader, the download loop (lines 439-562).                     *)
(***************************************************************************)
\* the paths typed at the "new path" prompt in the full program
LoopPaths == { Dot, PaddedDot, Blank, Rel(<< "a" >>), Rel(<< ".", "a" >>) }

LoopFrame == UNCHANGED << ytdlpFile, zipFile, tempDir, binDir, binFiles,
                          ffmpegAvailable, dl, inst, prov >> /\ Closed

\* lines 447-455: one prompt for the URL and its validation
PromptUrl ==
  /\ pc = "promptUrl"
  /\ \E url \in Urls, confirmation \in BOOLEAN :
       LET v == testValidUrl(url, confirmation) IN
       /\ job' = [job EXCEPT !.phase = "url", !.input = url, !.asked = v.asked,
                             !.confirmed = v.asked /\ confirmation,
                             !.url = IF v.valid THEN url ELSE << >>]
       /\ pc' = IF v.valid THEN "showOptions" ELSE "promptUrl"
  /\ LoopFrame
  /\ UNCHANGED << history, folders, plainFiles, exitCode >>

\* line 457: showDownloadOptions (lines 302-318)
ShowOptions ==
  /\ pc = "showOptions"
  /\ \E option \in Options : job' = [job EXCEPT !.phase = "mode", !.option = option]
  /\ pc' = "selectFolder"
  /\ LoopFrame
  /\ UNCHANGED << history, folders, plainFiles, exitCode >>

\* lines 459-491: the history is read for the list, the folder is chosen
\* and the history updated
SelectFolder ==
  /\ pc = "selectFolder"
  /\ \/ \E newFolder \in LoopPaths, readOk \in BOOLEAN, write \in WriteOutcomes :
            /\ validNewFolder(newFolder)
            /\ LET r == chooseNew(history, newFolder, readOk, write) IN
               /\ history' = r.history
               /\ job' = [job EXCEPT !.phase = "folder", !.choice = "new",
                                     !.folder = r.folder]
     \/ LET r == chooseCurrent(history) IN
            /\ history' = r.history
            /\ job' = [job EXCEPT !.phase = "folder", !.choice = "current",
                                  !.folder = r.folder]
     \/ \E listOk \in BOOLEAN, readOk \in BOOLEAN, write \in WriteOutcomes :
            LET choices == readHistory(history, listOk) IN
            \E k \in 1..Len(choices) :
              LET r == chooseEntry(choices, history, k, readOk, write) IN
              /\ history' = r.history
              /\ job' = [job EXCEPT !.phase = "folder", !.choice = "entry",
                                    !.folder = r.folder]
  /\ pc' = "ensureFolder"
  /\ LoopFrame
  /\ UNCHANGED << folders, plainFiles, exitCode >>

\* fs.existsSync(downloadFolder), line 493: true for a directory and for a
\* regular file alike
folderExists(folder, dirs, regular) == folder \in dirs \cup regular

\* mutant: a failed mkdirSync is ignored
afterMkdir_Ignore(ok) == "confirm"

\* lines 495-501: after mkdirSync the summary follows; when it threw, the
\* `continue` of line 500 starts the next iteration
afterMkdir(ok) == IF ok THEN "confirm" ELSE "promptUrl"

\* lines 493-502: a folder that does not exist is created; when that fails
\* the iteration is abandoned (`continue`)
EnsureFolder ==
  /\ pc = "ensureFolder"
  /\ \/ /\ folderExists(job.folder, folders, plainFiles)
        /\ job' = [job EXCEPT !.phase = "summary"]
        /\ pc' = "confirm"
        /\ UNCHANGED folders
     \/ /\ ~folderExists(job.folder, folders, plainFiles)
        /\ \E ok \in BOOLEAN :
             /\ folders' = IF ok THEN folders \cup {job.folder} ELSE folders
             /\ job' = IF afterMkdir(ok) = "confirm"
                         THEN [job EXCEPT !.phase = "summary"]
                         ELSE [NoJob EXCEPT !.phase = "url"]
             /\ pc' = afterMkdir(ok)
  /\ LoopFrame
  /\ UNCHANGED << history, plainFiles, exitCode >>

\* how a spawn with working directory `folder` can end: the process runs
\* and closes with code 0 or another code, or spawn emits 'error'; with a
\* working directory that is not a directory only the error is possible
spawnEnds(folder, dirs) ==
  IF folder \in dirs THEN {"exit0", "exitN", "spawnError"} ELSE {"spawnError"}

\* lines 530-557: 'close' with code 0 resolves, 'close' with another code and
\* 'error' reject; the catch of line 549 takes the rejection, and control
\* reaches the question of line 557 in all three cases
afterSpawn(end) == "askRepeat"

\* the answers getDownloadArguments can get: the format is asked in mode
\* '5' only (lines 350-355), the metadata question in mode '5' with the
\* flag set only (lines 358-363)
formatsAsked(option) == IF option = "5" THEN CustomFormats ELSE {""}

metaAsked(option, available) ==
  IF option = "5" /\ available THEN BOOLEAN ELSE {FALSE}

\* lines 510-528: the summary is confirmed or not; when it is, the arguments
\* are compiled, an existing file may cancel the job (`continue`), and the
\* downloader is spawned
Download ==
  /\ pc = "confirm"
  /\ \/ /\ job' = [job EXCEPT !.phase = "cancelled"]
        /\ pc' = "askRepeat"
     \/ \E customFormat \in formatsAsked(job.option),
           includeMeta \in metaAsked(job.option, ffmpegAvailable),
           existing \in BOOLEAN, overwrite \in BOOLEAN :
          LET args == getDownloadArguments(job.option, ffmpegAvailable,
                                           customFormat, includeMeta)
          IN  IF existing /\ ~overwrite
                THEN /\ job' = [NoJob EXCEPT !.phase = "url"]
                     /\ pc' = "promptUrl"
                ELSE /\ job' = [job EXCEPT
                                  !.phase = "spawned",
                                  !.format = IF job.option = "5" THEN customFormat ELSE "",
                                  !.meta = job.option = "5" /\ ffmpegAvailable /\ includeMeta,
                                  !.args = args \o << job.url >>]
                     /\ pc' = "awaitClose"
  /\ LoopFrame
  /\ UNCHANGED << history, folders, plainFiles, exitCode >>

\* lines 530-554: the wait for the downloader ends with 'close' or 'error'
DownloadEnds ==
  /\ pc = "awaitClose"
  /\ \E end \in spawnEnds(job.folder, folders) :
       /\ job' = [job EXCEPT !.phase = end]
       /\ pc' = afterSpawn(end)
  /\ LoopFrame
  /\ UNCHANGED << history, folders, plainFiles, exitCode >>

\* the exit codes possible once startDownloader has returned: 0 when the
\* event loop runs empty; a response that is still open keeps the process
\* alive until it closes (0) or fails (1)
codesAfterReturn(open) == IF open THEN {0, 1} ELSE {0}

\* line 557: another download?  When declined startDownloader returns and
\* the process ends, and the locals of the loop with it
AskRepeat ==
  /\ pc = "askRepeat"
  /\ \/ /\ job' = [NoJob EXCEPT !.phase = "url"]
        /\ pc' = "promptUrl"
        /\ UNCHANGED exitCode
     \/ /\ \E code \in codesAfterReturn(live) : Exit(code)
        /\ job' = NoJob
  /\ LoopFrame
  /\ UNCHANGED << history, folders, plainFiles >>

\* the 'error' event of a response that an attempt of safeDownload left
\* open (lines 179-184): it has no listener, so while the flow waits at an
\* await it ends the process with code 1.  A safeDownload call that is
\* running never returns; the job being collected is gone with the process
ResponseError ==
  /\ live
  /\ atAwait(pc, toolStateOf(binFiles), ffmpegAvailable)
  /\ Exit(1)
  /\ live' = FALSE
  /\ dl' = IF dl.ret = "none" /\ dl.target # "none"
             THEN [dl EXCEPT !.ret = "never"] ELSE dl
  /\ job' = NoJob
  /\ UNCHANGED << ytdlpFile, zipFile, tempDir, binDir, binFiles, history, folders,
                  plainFiles, ffmpegAvailable, inst, prov >>

(***************************************************************************)
(* Spec: the whole program.  The files and the history outlive a process;  *)
(* Restart starts the program again on what the last run left on disk.     *)
(***************************************************************************)
Init ==
  /\ pc = "start"
  /\ ytdlpFile \in {"none", "full"}
  /\ zipFile = "none"
  /\ tempDir = FALSE
  /\ binFiles \in SUBSET Required
  /\ binDir \in BOOLEAN
  /\ binFiles # {} => binDir
  /\ history = << >>
  /\ folders = {cwd}
  /\ plainFiles \in {{}, {Abs(<< "w", "a" >>)}}
  /\ ffmpegAvailable = FALSE
  /\ dl = NoCall
  /\ inst = NoInstall
  /\ prov = NoProv
  /\ job = NoJob
  /\ exitCode = "running"
  /\ live = FALSE

\* the program is started again
Restart ==
  /\ pc = "exit"
  /\ pc' = "start"
  /\ live' = FALSE
  /\ exitCode' = "running"
  /\ ffmpegAvailable' = FALSE
  /\ dl' = NoCall
  /\ inst' = NoInstall
  /\ prov' = NoProv
  /\ job' = NoJob
  /\ UNCHANGED << ytdlpFile, zipFile, tempDir, binDir, binFiles, history, folders, plainFiles >>

Next ==
  \/ Start \/ CheckYtdlp \/ DownloadAttempt \/ YtdlpFetched
  \/ CheckFFmpeg \/ InstallStart \/ InstallPrepare \/ InstallTry
  \/ InstallFinally \/ InstallReturn \/ Probe
  \/ PromptUrl \/ ShowOptions \/ SelectFolder \/ EnsureFolder \/ Download
  \/ DownloadEnds \/ AskRepeat \/ ResponseError \/ Restart

Spec == Init /\ [][Next]_vars

(***************************************************************************)
(* SpecHist: the folder history on its own.  It starts from histories the  *)
(* program writes (suffixes of ten folders chosen one after the other,     *)
(* the empty history among them) and applies MaxOps folder choices or      *)
(* direct addToHistory calls with every path of RawPaths.                  *)
(***************************************************************************)
\* number of history operations applied in a row
MaxOps == 2

\* ten folders chosen earlier, most recent first
CanonHistory ==
  << Abs(<< "d1" >>), Abs(<< "w", "a" >>), Abs(<< "d2" >>), Abs(<< "d3" >>),
     Abs(<< "b" >>), Abs(<< "d4" >>), Abs(<< "d5" >>), Abs(<< "d6" >>),
     Abs(<< "d7" >>), Abs(<< "a", "b" >>) >>

InitHist ==
  /\ pc = "selectFolder"
  /\ \E j \in 1..(Len(CanonHistory) + 1) :
       history = SubSeq(CanonHistory, j, Len(CanonHistory))
  /\ job = NoJob
  /\ dl = NoCall
  /\ inst = NoInstall
  /\ prov = NoProv
  /\ ytdlpFile = "full"
  /\ zipFile = "none"
  /\ tempDir = FALSE
  /\ binDir = FALSE
  /\ binFiles = {}
  /\ folders = {cwd}
  /\ plainFiles = {}
  /\ ffmpegAvailable = FALSE
  /\ exitCode = "running"
  /\ live = FALSE

HistFrame == UNCHANGED << pc, ytdlpFile, zipFile, tempDir, binDir, binFiles, folders, plainFiles,
                          ffmpegAvailable, dl, inst, prov, exitCode, live >>

\* addToHistory(newPath) called with any path string
HistAdd ==
  /\ pc = "selectFolder" /\ job.n < MaxOps
  /\ \E newPath \in RawPaths, readOk \in BOOLEAN, write \in WriteOutcomes :
       /\ history' = addToHistory(history, newPath, readOk, write)
       /\ job' = [NoJob EXCEPT !.choice = "add", !.typed = newPath,
                               !.folder = resolve(newPath), !.before = history,
                               !.readOk = readOk, !.write = write,
                               !.n = job.n + 1]
  /\ HistFrame

\* lines 476-485: "Escribir una nueva ruta"
HistNew ==
  /\ pc = "selectFolder" /\ job.n < MaxOps
  /\ \E newFolder \in RawPaths, readOk \in BOOLEAN, write \in WriteOutcomes :
       /\ validNewFolder(newFolder)
       /\ LET r == chooseNew(history, newFolder, readOk, write) IN
          /\ history' = r.history
          /\ job' = [NoJob EXCEPT !.choice = "new", !.typed = newFolder,
                                  !.folder = r.folder, !.before = history,
                                  !.readOk = readOk, !.write = write,
                                  !.n = job.n + 1]
  /\ HistFrame

\* lines 486-487: "Usar carpeta actual"
HistCurrent ==
  /\ pc = "selectFolder" /\ job.n < MaxOps
  /\ LET r == chooseCurrent(history) IN
     /\ history' = r.history
     /\ job' = [NoJob EXCEPT !.choice = "current", !.folder = r.folder,
                             !.before = history, !.n = job.n + 1]
  /\ HistFrame

\* lines 488-490: an entry of the list read at line 459 is selected
HistEntry ==
  /\ pc = "selectFolder" /\ job.n < MaxOps
  /\ \E listOk \in BOOLEAN, readOk \in BOOLEAN, write \in WriteOutcomes :
       LET choices == readHistory(history, listOk) IN
       \E k \in 1..Len(choices) :
         LET r == chooseEntry(choices, history, k, readOk, write) IN
         /\ history' = r.history
         /\ job' = [NoJob EXCEPT !.choice = "entry", !.folder = r.folder,
                                 !.before = history,
                                 !.readOk = readOk, !.write = write,
                                 !.n = job.n + 1]
  /\ HistFrame

NextHist == HistAdd \/ HistNew \/ HistCurrent \/ HistEntry

SpecHist == InitHist /\ [][NextHist]_vars

(***************************************************************************)
(* SpecFetch: safeDownload on its own, for every retries in 1..MaxRetries  *)
(* and every state of the destination file.                                *)
(***************************************************************************)

InitFetch ==
  /\ pc = "safeDownload"
  /\ \E t \in {"ytdlp", "zip"}, n \in 1..MaxRetries :
       dl = safeDownloadCall(t, "none", n)
  /\ ytdlpFile \in FileStates
  /\ zipFile \in FileStates
  /\ tempDir = FALSE
  /\ binDir = FALSE
  /\ binFiles = {}
  /\ history = << >>
  /\ folders = {}
  /\ plainFiles = {}
  /\ ffmpegAvailable = FALSE
  /\ inst = NoInstall
  /\ prov = NoProv
  /\ job = NoJob
  /\ exitCode = "running"
  /\ live \in BOOLEAN

NextFetch == DownloadAttempt \/ ResponseError

SpecFetch == InitFetch /\ [][NextFetch]_vars

(***************************************************************************)
(* C1  safeDownload starts at most `retries` attempts, no attempt follows  *)
(* one that completed with the file present, it returns true exactly when  *)
(* its last attempt completed with the file present, and it returns false  *)
(* only after `retries` attempts that all failed.                          *)
(***************************************************************************)
C1_BoundedRetry ==
  dl.target # "none" =>
    /\ Len(dl.log) <= dl.retries
    /\ \A k \in 1..(Len(dl.log) - 1) : dl.log[k] # "finishPresent"
    /\ (dl.log # << >> /\ dl.log[Len(dl.log)] = "finishPresent") => dl.ret = "true"
    /\ dl.ret = "true" =>
         /\ dl.log # << >> /\ dl.log[Len(dl.log)] = "finishPresent"
         /\ existsSync(IF dl.target = "ytdlp" THEN ytdlpFile ELSE zipFile)
    /\ dl.ret = "false" =>
         /\ Len(dl.log) = dl.retries
         /\ \A k \in 1..Len(dl.log) : dl.log[k] # "finishPresent"

\* all of several attempts were made and failed
C1_Witness ==
  /\ dl.ret = "false" /\ dl.retries >= 3 /\ Len(dl.log) = dl.retries
  /\ dl.log[1] = "writeError" /\ dl.log[2] = "finishAbsent"

Range(seq) == { seq[k] : k \in 1..Len(seq) }

(***************************************************************************)
(* C7  The folder history stored in the file, as readHistory loads it, has *)
(* at most 10 entries, no path twice, and every entry is an absolute path  *)
(* in resolved form.  (A file left cut off by a failed write loads as the  *)
(* empty history.)                                                         *)
(***************************************************************************)
C7_HistoryInvariant ==
  LET stored == readHistory(history, TRUE) IN
  /\ Len(stored) <= HistoryLimit
  /\ \A j, k \in 1..Len(stored) : stored[j] = stored[k] => j = k
  /\ \A k \in 1..Len(stored) : stored[k].abs /\ resolve(stored[k]) = stored[k]

\* a relative path with a ".." was added to a full history
C7_Witness ==
  /\ job.choice = "add" /\ Len(job.before) = HistoryLimit
  /\ ~job.typed.abs /\ ".." \in Range(job.typed.segs)
  /\ job.folder \notin Range(job.before)
  /\ history # Corrupt
  /\ Len(history) = HistoryLimit /\ history[1] = job.folder

(***************************************************************************)
(* C8  A folder choice that is saved and whose path is already in the      *)
(* history moves it to index 0 and keeps the set and the order of the      *)
(* other entries; a path not in the history is put at index 0, and when    *)
(* the history held 10 entries exactly the last one is dropped.  The claim *)
(* is read with what the specification allows for the file: a write that   *)
(* does not take place leaves the stored history as it was (the file is    *)
(* overwritten atomically), and a read that fails gives the empty history, *)
(* so that the stored history becomes the chosen path alone.               *)
(***************************************************************************)
SavedChoice ==
  \/ job.choice \in {"new", "entry"}
  \/ job.choice = "add" /\ job.typed # EmptyPath /\ trim(job.typed) # Dot

MovedToFront ==
  LET others == SelectSeq(job.before, LAMBDA p : p # job.folder) IN
  IF job.folder \in Range(job.before)
    THEN /\ history = << job.folder >> \o others
         /\ Range(history) = Range(job.before)
         /\ Len(history) = Len(job.before)
    ELSE IF Len(job.before) = HistoryLimit
      THEN history = << job.folder >> \o SubSeq(job.before, 1, HistoryLimit - 1)
      ELSE history = << job.folder >> \o job.before

C8_MoveToFront ==
  SavedChoice =>
    \/ job.before # Corrupt /\ MovedToFront
    \/ job.write # "written" /\ history = job.before
    \/ (~job.readOk \/ job.before = Corrupt) /\ job.write = "written"
         /\ history = << job.folder >>

(***************************************************************************)
(* C9  The current directory is never recorded: choosing "current          *)
(* directory" leaves the history unchanged, and so does entering the alias *)
(* "." as a new path; addToHistory saves neither the empty path nor ".".   *)
(***************************************************************************)
C9_CurrentDirNotRecorded ==
  /\ job.choice = "current" => history = job.before
  /\ (job.choice = "new" /\ trim(job.typed) = Dot) => history = job.before
  /\ (job.choice = "add" /\ (job.typed = EmptyPath \/ trim(job.typed) = Dot))
       => history = job.before


(***************************************************************************)
(* C2  When installFFmpeg returns after the archive was downloaded,        *)
(* neither the scratch directory nor the archive file exists, whatever     *)
(* happened to extraction, marker directory and copies.                    *)
(***************************************************************************)
C2_NoLeftovers ==
  (pc = "installed" /\ inst.phase = "returned" /\ inst.downloaded)
    => (~tempDir /\ ~existsSync(zipFile))

\* the marker directory was found and held none of the required files
C2_Witness ==
  /\ pc = "installed" /\ inst.phase = "returned" /\ inst.downloaded
  /\ inst.found /\ inst.copied = 0 /\ ~inst.tryThrew /\ inst.ret = "false"

(***************************************************************************)
(* C3 as stated: installFFmpeg returns true if and only if the number of   *)
(* required files copied into the target directory is greater than 0.      *)
(***************************************************************************)
C3_TrueIffCopied ==
  (pc = "installed" /\ inst.phase = "returned")
    => (inst.ret = "true" <=> inst.copied > 0)

(***************************************************************************)
(* C3 amended: whenever installFFmpeg ends, it has returned true if and    *)
(* only if at least one required file was copied and nothing threw:        *)
(* neither a step of the try block nor the cleanup of the finally block    *)
(* (when the cleanup throws, the call rejects whatever was copied).  When  *)
(* the marker directory is found and no step of the try block throws,      *)
(* every required file present under it is copied; for the empty subset    *)
(* the call never returns true.                                            *)
(***************************************************************************)
C3_TrueIffCopiedNoThrow ==
  pc = "installed" =>
    /\ inst.ret = "true"
         <=> (inst.copied > 0 /\ ~inst.tryThrew /\ inst.phase # "threw")
    /\ inst.phase = "returned" => inst.ret \in {"true", "false"}
    /\ (inst.found /\ ~inst.tryThrew) => inst.copied = Cardinality(inst.present)
    /\ inst.present = {} => inst.ret # "true"
    /\ inst.copied <= Cardinality(inst.present)

\* two of the three files were in the bundle and were copied
C3_Witness ==
  /\ pc = "installed" /\ inst.phase = "returned" /\ inst.ret = "true"
  /\ inst.present = {"ffmpeg.exe", "ffplay.exe"} /\ inst.copied = 2

(***************************************************************************)
(* C4  When the media tool was found complete, or the prompt was declined, *)
(* or installFFmpeg has ended (it returned true, it returned false, or it  *)
(* failed by throwing), provisioning is over: the flag is true exactly for *)
(* "complete" and for "accepted and installer returned true", the process  *)
(* has not exited, and the next step enters the loop.                      *)
(***************************************************************************)
C4_Cases ==
  \/ prov.toolState = "Complete"
  \/ prov.asked # "none" /\ ~prov.answer
  \/ prov.installed \in {"true", "false", "throw"}

C4_FlagAfterProvisioning ==
  [][ /\ C4_Cases => prov.phase = "provisioned"
      /\ prov.phase = "provisioned" =>
           /\ ffmpegAvailable =
                ( \/ prov.toolState = "Complete"
                  \/ /\ prov.toolState \in {"Incomplete", "Missing"}
                     /\ prov.answer /\ prov.installed = "true" )
           /\ (prov.asked # "none" /\ (~prov.answer \/ prov.installed # "true"))
                => ~ffmpegAvailable
           /\ pc # "exit"
           /\ pc' = "promptUrl" /\ job'.phase = "url" /\ exitCode' = "running"
    ]_vars

(***************************************************************************)
(* C5  When exactly one required file is missing from the install          *)
(* directory, whichever it is, the tool is found incomplete, exactly that  *)
(* file is reported and the repair prompt is asked; when the user accepts  *)
(* and the installer has copied all required files the flag is true.       *)
(***************************************************************************)
C5_OneMissingRepaired ==
  (prov.toolState # "none" /\ Cardinality(Required \ prov.binSeen) = 1) =>
    /\ prov.toolState = "Incomplete"
    /\ prov.asked = "repair"
    /\ Len(prov.missing) = 1 /\ Range(prov.missing) = Required \ prov.binSeen
    /\ (prov.answer /\ prov.copied = Len(requiredFiles)) => ffmpegAvailable

(***************************************************************************)
(* C6  When yt-dlp was missing and its fetch failed, the process has       *)
(* exited with code 1 and nothing of the loop has happened in this run:    *)
(* no URL prompt, no spawn.                                                *)
(***************************************************************************)
C6_FetchFailureFatal ==
  (prov.ytdlp = "Missing" /\ prov.fetch = "failed")
    => (pc = "exit" /\ exitCode = 1 /\ job = NoJob)

C6_Witness ==
  /\ prov.ytdlp = "Missing" /\ prov.fetch = "failed" /\ exitCode = 1
  /\ ytdlpFile = "partial"

(***************************************************************************)
(* C10  A URL is accepted only if it is not empty and either names a known *)
(* domain or has the http(s):// shape and the confirmation prompt was      *)
(* answered yes.                                                           *)
(***************************************************************************)
knownDomain(url) == \E k \in 2..Len(patterns) : test(patterns[k], url)

httpShape(url) == test(patterns[1], url)

C10_UrlAcceptance ==
  job.url # << >> =>
    /\ trimUrl(job.url) # << >>
    /\ knownDomain(job.url) \/ (httpShape(job.url) /\ job.confirmed)

(***************************************************************************)
(* C11  A URL that matches no pattern and whose confirmation is declined,  *)
(* and an empty or blank URL, keep the loop at the URL prompt with no URL  *)
(* taken; the mode selection and every later step of the iteration hold a  *)
(* URL that passed validation: it is the text entered, it is not blank,    *)
(* and when the confirmation was asked it was answered yes.                *)
(***************************************************************************)
AfterUrl == {"showOptions", "selectFolder", "ensureFolder", "confirm", "askRepeat"}

C11_RejectedUrlReprompts ==
  /\ (job.phase = "url" /\ job.asked /\ ~job.confirmed)
       => (pc = "promptUrl" /\ job.url = << >>)
  /\ (job.phase = "url" /\ trimUrl(job.input) = << >>)
       => (pc = "promptUrl" /\ job.url = << >>)
  /\ pc \in AfterUrl =>
       /\ job.url = job.input /\ trimUrl(job.url) # << >>
       /\ job.asked => job.confirmed
       /\ testValidUrl(job.url, job.confirmed).valid

\* "example.org" was entered and the confirmation declined
C11_Witness ==
  /\ pc = "promptUrl" /\ job.input = << "example.org" >>
  /\ job.asked /\ ~job.confirmed /\ job.url = << >>

(***************************************************************************)
(* C12  When ffmpegAvailable is false the argument vector compiled for any *)
(* mode, custom format and metadata answer holds no --ffmpeg-location, no  *)
(* --embed-metadata and no --embed-thumbnail; so does every vector the     *)
(* downloader is spawned with while the flag is false.                     *)
(***************************************************************************)
AdvancedFlags == {"--ffmpeg-location", "--embed-metadata", "--embed-thumbnail"}

\* the downloader was spawned in this iteration (and may have ended)
Spawned == job.phase \in {"spawned", "exit0", "exitN", "spawnError"}

C12_NoAdvancedFlags ==
  /\ \A option \in Options, customFormat \in CustomFormats, includeMeta \in BOOLEAN :
       Range(getDownloadArguments(option, FALSE, customFormat, includeMeta))
         \cap AdvancedFlags = {}
  /\ (Spawned /\ ~ffmpegAvailable) => Range(job.args) \cap AdvancedFlags = {}

\* no bundle on disk, the flag is false, mode 1 (best up to 720) was spawned
C12_Witness ==
  /\ Spawned /\ ~ffmpegAvailable /\ binFiles = {} /\ job.option = "1"
  /\ job.args = << "--console-title", "--no-part", "-f", "best[height<=720]/best",
                   job.url >>

(***************************************************************************)
(* C13  In the audio mode ('2') with ffmpegAvailable true the vector holds *)
(* -x --audio-format mp3 in this order and --embed-metadata, and never     *)
(* --embed-thumbnail.                                                      *)
(***************************************************************************)
C13_AudioArguments ==
  (Spawned /\ job.option = "2" /\ ffmpegAvailable) =>
    /\ \E k \in 1..(Len(job.args) - 2) :
         job.args[k] = "-x" /\ job.args[k + 1] = "--audio-format"
           /\ job.args[k + 2] = "mp3"
    /\ "--embed-metadata" \in Range(job.args)
    /\ "--embed-thumbnail" \notin Range(job.args)
    /\ SubSeq(job.args, 1, Len(job.args) - 1)
         = getDownloadArguments("2", TRUE, job.format, job.meta)

C13_Witness ==
  /\ Spawned /\ job.option = "2" /\ ffmpegAvailable
  /\ "--embed-metadata" \in Range(job.args)

(***************************************************************************)
(* C14  In the custom mode ('5') with the empty string as format the       *)
(* vector holds no -f, whatever the flag and the metadata answer.          *)
(***************************************************************************)
C14_EmptyFormatNoSelector ==
  /\ \A available \in BOOLEAN, includeMeta \in BOOLEAN :
       "-f" \notin Range(getDownloadArguments("5", available, "", includeMeta))
  /\ (Spawned /\ job.option = "5" /\ job.format = "") => "-f" \notin Range(job.args)

\* the custom mode with an empty format and the metadata answer yes
C14_Witness ==
  /\ Spawned /\ job.option = "5" /\ job.format = "" /\ job.meta /\ ffmpegAvailable
  /\ "--embed-thumbnail" \in Range(job.args)

(***************************************************************************)
(* C15  Every spawn of the downloader ends with exit code 0, with another  *)
(* code or with a spawn-level error, and is then followed by the question  *)
(* whether to run another job; the answer yes goes back to the URL prompt  *)
(* with the process running, the answer no ends the process with exit code *)
(* 0, and an ended process spawns nothing more.                            *)
(***************************************************************************)
JobEnded == job.phase \in {"exit0", "exitN", "spawnError"}

Provisioning ==
  \/ dl # NoCall \/ inst # NoInstall
  \/ prov.ytdlp # "none" \/ prov.update # "none" \/ prov.toolState # "none"

C16_ConnectivityFirst ==
  [][ /\ Provisioning => (prov.phase \notin {"none", "connectivity"} /\ prov.continued)
      /\ pc = "start" =>
           /\ ~Provisioning /\ ~Provisioning'
           /\ UNCHANGED << ytdlpFile, zipFile, tempDir, binDir, binFiles,
                           ffmpegAvailable, history, folders, plainFiles, job >>
           /\ prov'.phase = "connectivity"
           /\ (~prov'.online /\ ~prov'.continued) => (pc' = "exit" /\ exitCode' = 1)
           /\ prov'.continued =>
                /\ pc' = "checkYtdlp" /\ exitCode' = "running"
                /\ [prov' EXCEPT !.online = TRUE]
                     = [prov EXCEPT !.phase = "connectivity", !.online = TRUE,
                                    !.continued = TRUE]
      /\ (pc = "exit" /\ prov.phase = "connectivity") =>
           (exitCode = 1 /\ ~prov.online /\ ~prov.continued /\ pc' = "start")
    ]_vars

\* yt-dlp is being fetched in a run whose connectivity check failed
C16_Witness ==
  /\ pc = "safeDownload" /\ dl.target = "ytdlp" /\ dl.i = 2
  /\ ~prov.online /\ prov.continued

(***************************************************************************)
(* C17  Whatever way installFFmpeg ends (it returns true, it returns false *)
(* at any step, the failed download of the archive included, or it throws  *)
(* at any step, the preparation of the scratch directory included),        *)
(* neither the scratch directory nor the archive file exists afterwards.   *)
(***************************************************************************)
C17_AlwaysCleaned ==
  pc = "installed" => (~tempDir /\ ~existsSync(zipFile))

(***************************************************************************)
(* C18  No low-level operation ends the run: installFFmpeg always ends by  *)
(* returning true or false to startDownloader, and every safeDownload call *)
(* returns.                                                                *)
(***************************************************************************)
C18_NoThrow ==
  /\ pc = "installed" => inst.ret \in {"true", "false"}
  /\ dl.ret # "never"

(***************************************************************************)
(* C19  Once the self-update of a present yt-dlp has failed, or the        *)
(* install or repair of the media tool was asked (and then declined, or    *)
(* accepted and failed), the process keeps running on its way to the URL   *)
(* prompt, and the flag is false at the probe unless the installer         *)
(* returned true.                                                          *)
(***************************************************************************)
C19_DegradedNotFatal ==
  /\ (prov.update = "failed" \/ prov.asked # "none") => pc # "exit"
  /\ (pc = "probe" /\ prov.asked # "none" /\ prov.installed # "true")
       => ~ffmpegAvailable

(***************************************************************************)
(* C20  A chosen folder that does not exist is created before the summary; *)
(* when the creation fails the iteration is abandoned: the next step is    *)
(* the URL prompt of a fresh iteration, without summary, arguments or      *)
(* spawn.  The summary is only shown, and spawn only called, for a path    *)
(* that exists, and a downloader that ran had an existing directory as     *)
(* working directory.                                                      *)
(***************************************************************************)
C20_FolderCreatedOrAborted ==
  [][ /\ pc = "ensureFolder" =>
           /\ pc' \in {"confirm", "promptUrl"}
           /\ pc' = "confirm" <=> folderExists(job.folder, folders', plainFiles')
           /\ (pc' = "confirm" /\ ~folderExists(job.folder, folders, plainFiles))
                => (job.folder \in folders' /\ job'.folder = job.folder)
           /\ pc' = "promptUrl" =>
                (job' = [NoJob EXCEPT !.phase = "url"] /\ folders' = folders)
      /\ pc = "confirm" => folderExists(job.folder, folders, plainFiles)
      /\ (~Spawned /\ Spawned') => (pc = "confirm" /\ job'.folder = job.folder)
      /\ Spawned => folderExists(job.folder, folders, plainFiles)
      /\ job.phase \in {"exit0", "exitN"} => job.folder \in folders
    ]_vars

\* the folder "a" did not exist, was created, and the download ran in it
C20_Witness ==
  /\ job.phase = "exit0" /\ job.choice = "new"
  /\ job.folder = Abs(<< "w", "a" >>) /\ job.folder \in folders

(***************************************************************************)
(* C21  When the fetch of a missing yt-dlp has failed, no file is left at  *)
(* ytdlpPath; hence a presence check that finds yt-dlp there, in this or   *)
(* in a later run, finds a completely fetched file and never a partial one *)
(* taken for Ready.                                                        *)
(***************************************************************************)
C21_FailedFetchDiscarded ==
  /\ (prov.ytdlp = "Missing" /\ prov.fetch = "failed") => ~existsSync(ytdlpFile)
  /\ prov.ytdlp = "Ready" => ytdlpFile = "full"

====
